---- MODULE Spec2Model ----
(***************************************************************************)
(* Model of crates/brush-core-vendored/src/sys/windows/fs.rs: the Windows  *)
(* filesystem-capability layer of the shell runtime.                       *)
(*                                                                         *)
(* Strings are sequences of one-character strings, so that split, trim,    *)
(* prefix tests, case folding and path joining are computed the way the    *)
(* code computes them.                                                     *)
(***************************************************************************)
EXTENDS Integers, Sequences, FiniteSets, TLC

VARIABLES
    envPathext,     \* the PATHEXT environment variable: None or Some(string)
    envSystemRoot,  \* the SystemRoot environment variable: None or Some(string)
    nulAvail,       \* whether the OS can open the device "NUL" right now
    once,           \* state of the OnceLock PATHEXT: Incomplete, Running, Complete
    cell,           \* value stored in the OnceLock PATHEXT: None or Some(Vec<String>)
    inits,          \* how many times the initialising closure has run (2 = more than once)
    pc,             \* per thread: position in the call it is making
    op,             \* per thread: the function it is calling / has called
    arg,            \* per thread: the path the call is about
    local,          \* per thread: the local variables of the call
    ret,            \* per thread: <<>> or <<the value returned by the last call>>
    io              \* per thread: the file opens the current call has issued

vars == <<envPathext, envSystemRoot, nulAvail, once, cell, inits,
          pc, op, arg, local, ret, io>>

(***************************************************************************)
(* Bounds of the model.                                                    *)
(***************************************************************************)
NThreads == 2
MaxLen == 3
MaxName == 3
MaxRoot == 2
MaxBytes == 2

Threads == 1..NThreads
\* The thread that acts in the single-threaded specifications.
MainThread == CHOOSE t \in Threads : \A u \in Threads : t <= u

(***************************************************************************)
(* Option<T>                                                               *)
(***************************************************************************)
None == [some |-> FALSE, val |-> <<>>]
Some(v) == [some |-> TRUE, val |-> v]

(***************************************************************************)
(* Strings over small alphabets.                                           *)
(***************************************************************************)
StringsUpTo(A, n) == UNION {[1..k -> A] : k \in 0..n}

\* An unpaired surrogate (an OsStr unit that is not valid Unicode) and
\* U+FFFD, the character a lossy conversion puts in its place.
Surrogate == "<D800>"
Replacement == "<FFFD>"
\* A pair of non-ASCII letters that differ only in case (U+00C9, U+00E9).
UpperEAcute == "<C9>"
LowerEAcute == "<E9>"

EnvAlphabet == {".", ";", " ", "e"}
NameAlphabet == {".", "e", "E"}
RootAlphabet == {"C", ":", "\\"}

PathextSamples ==
    { <<".", "P", "S", "1", ";", "e", "x", "e", ";", ".", "b", "a", "t">>,
      <<".", "E", ";", ".", "e">>,
      <<"\t", ";", " ", "\t">>,
      <<"\t", "E", " ", ";">>,
      <<".", UpperEAcute>>,
      <<".", Surrogate>> }

NameSamples ==
    { <<"x", ".", "e", "x", "e">>,
      <<"x", ".", "E", "x", "E">>,
      <<"x", ".", "p", "s", "1">>,
      <<"x", ".", "c", "m", "d">>,
      <<"x", ".", LowerEAcute>>,
      <<"x", ".", UpperEAcute>>,
      <<"x", ".", Surrogate>>,
      <<"x", ".", Replacement>> }

RootSamples ==
    { <<"C", ":", "\\", "W", "i", "n", "d", "o", "w", "s">>,
      <<"C", ":", "\\", "W", "/">>,
      <<"C", ":", "\\", Surrogate>> }

PathextValues == {None} \cup {Some(s) : s \in StringsUpTo(EnvAlphabet, MaxLen) \cup PathextSamples}
\* The values the environment takes while several threads run.
ConcPathextValues ==
    { None,
      Some(<<".", "P", "S", "1", ";", "e", "x", "e", ";", ".", "b", "a", "t">>),
      Some(<<"\t", ";", " ", "\t">>),
      Some(<<"e">>) }
ConcPaths ==
    { [name |-> <<"x", ".", "E", "x", "E">>, kind |-> "file"],
      [name |-> <<"x", ".", "p", "s", "1">>, kind |-> "file"],
      [name |-> <<"e", ".", "E">>, kind |-> "file"],
      [name |-> <<"e", ".", "E">>, kind |-> "dir"],
      [name |-> <<"e">>, kind |-> "file"] }
Names == StringsUpTo(NameAlphabet, MaxName) \cup NameSamples
RootValues == {None} \cup {Some(s) : s \in StringsUpTo(RootAlphabet, MaxRoot) \cup RootSamples}
Kinds == {"file", "dir", "missing"}
\* The paths the constant predicates and the identity query are asked about.
SysPaths ==
    [name : { <<>>, <<"e">>, <<"e", ".", "E">>, <<"x", ".", "e", "x", "e">>, <<"N", "U", "L">> },
     kind : Kinds]
Paths == [name : Names, kind : Kinds]

(***************************************************************************)
(* Library functions the code calls, computed as the library computes them.*)
(***************************************************************************)
UpperLetters == <<"A", "B", "C", "D", "E", "F", "G", "H", "I", "J", "K", "L", "M",
                  "N", "O", "P", "Q", "R", "S", "T", "U", "V", "W", "X", "Y", "Z">>
LowerLetters == <<"a", "b", "c", "d", "e", "f", "g", "h", "i", "j", "k", "l", "m",
                  "n", "o", "p", "q", "r", "s", "t", "u", "v", "w", "x", "y", "z">>

\* u8::to_ascii_lowercase: only A..Z change.
ToAsciiLower(c) ==
    IF \E i \in 1..Len(UpperLetters) : UpperLetters[i] = c
    THEN LowerLetters[CHOOSE i \in 1..Len(UpperLetters) : UpperLetters[i] = c]
    ELSE c

IsAsciiAlphabetic(c) ==
    \E i \in 1..Len(UpperLetters) : c = UpperLetters[i] \/ c = LowerLetters[i]

\* Faulty variant: the comparison minds the case.
EqCaseSensitive(a, b) == a = b

\* str::eq_ignore_ascii_case: same length and unit-wise equal after ASCII lowering.
EqIgnoreAsciiCase(a, b) ==
    /\ Len(a) = Len(b)
    /\ \A i \in 1..Len(a) : ToAsciiLower(a[i]) = ToAsciiLower(b[i])

\* OsStr::to_string_lossy: every unit that is not valid Unicode becomes U+FFFD.
ToStringLossy(s) == [i \in 1..Len(s) |-> IF s[i] = Surrogate THEN Replacement ELSE s[i]]

\* OsStr::to_str: None when some unit is not valid Unicode.
ToStr(s) == IF \E i \in 1..Len(s) : s[i] = Surrogate THEN None ELSE Some(s)

\* char::is_whitespace
IsWhitespace(c) == c \in {" ", "\t", "\n", "\r"}

\* str::trim: drop leading and trailing whitespace.
RECURSIVE TrimStart(_)
TrimStart(s) ==
    IF s # <<>> /\ IsWhitespace(s[1]) THEN TrimStart(Tail(s)) ELSE s

RECURSIVE TrimEnd(_)
TrimEnd(s) ==
    IF s # <<>> /\ IsWhitespace(s[Len(s)]) THEN TrimEnd(SubSeq(s, 1, Len(s) - 1)) ELSE s

Trim(s) == TrimEnd(TrimStart(s))

\* str::split(';'): the pieces between the delimiters, empty pieces included;
\* a string without delimiter (the empty string too) is one piece.
RECURSIVE SplitFrom(_, _)
SplitFrom(s, piece) ==
    IF s = <<>> THEN <<piece>>
    ELSE IF s[1] = ";" THEN <<piece>> \o SplitFrom(Tail(s), <<>>)
    ELSE SplitFrom(Tail(s), Append(piece, s[1]))

Split(s) == SplitFrom(s, <<>>)

\* Path::file_name: the final component when it is a normal one. A path is
\* modelled by its final component; "", "." and ".." are not normal components.
FileName(name) ==
    IF name \in {<<>>, <<".">>, <<".", ".">>} THEN None ELSE Some(name)

\* Path::extension: the part of the file name after its last '.', when the
\* name has a '.' that is not its first character.
LastDot(f) == CHOOSE i \in 1..Len(f) : f[i] = "." /\ \A j \in (i + 1)..Len(f) : f[j] # "."

Extension(name) ==
    LET fn == FileName(name) IN
    IF ~fn.some THEN None
    ELSE LET f == fn.val IN
         IF \A i \in 1..Len(f) : f[i] # "." THEN None
         ELSE IF LastDot(f) = 1 THEN None
         ELSE Some(SubSeq(f, LastDot(f) + 1, Len(f)))

\* Path::is_file
IsFile(p) == p.kind = "file"

(***************************************************************************)
(* executable_extensions: the closure given to PATHEXT.get_or_init.        *)
(***************************************************************************)
fallback == << <<".", "C", "O", "M">>, <<".", "E", "X", "E">>,
               <<".", "B", "A", "T">>, <<".", "C", "M", "D">> >>

\* Faulty variant: an entry without a leading '.' is kept as it is.
NormalizeEntryNoDot(e) ==
    LET ext == Trim(e) IN
    IF ext = <<>> THEN None ELSE Some(ext)

\* The filter_map closure: trim; drop an empty entry; keep an entry that
\* starts with '.'; put a '.' before any other.
NormalizeEntry(e) ==
    LET ext == Trim(e) IN
    IF ext = <<>> THEN None
    ELSE IF ext[1] = "." THEN Some(ext)
    ELSE Some(<<".">> \o ext)

RECURSIVE FilterMap(_)
FilterMap(pieces) ==
    IF pieces = <<>> THEN <<>>
    ELSE LET e == NormalizeEntry(Head(pieces)) IN
         (IF e.some THEN <<e.val>> ELSE <<>>) \o FilterMap(Tail(pieces))

\* Faulty variant: no fallback when every entry of the signal is dropped.
ComputeExtensionsNoEmptyGuard(value) ==
    IF ~value.some THEN fallback
    ELSE FilterMap(Split(ToStringLossy(value.val)))

\* The value the closure computes from what var_os("PATHEXT") returned.
ComputeExtensions(value) ==
    IF ~value.some THEN fallback
    ELSE LET exts == FilterMap(Split(ToStringLossy(value.val))) IN
         IF exts = <<>> THEN fallback ELSE exts

\* executable_extensions().iter().any(|known| known.eq_ignore_ascii_case(&ext))
AnyKnown(exts, ext) == \E i \in 1..Len(exts) : EqIgnoreAsciiCase(exts[i], ext)

(***************************************************************************)
(* State of a thread.                                                      *)
(***************************************************************************)
NoPath == [name |-> <<>>, kind |-> "missing"]
NoLocal == [ext |-> <<>>, value |-> <<>>, wrote |-> <<>>, got |-> <<>>]
Ready(t) == pc[t] = "idle"

\* A call that returns v without blocking.
Returns(t, f, p, v) ==
    /\ Ready(t)
    /\ pc' = [pc EXCEPT ![t] = "done"]
    /\ op' = [op EXCEPT ![t] = f]
    /\ arg' = [arg EXCEPT ![t] = p]
    /\ local' = [local EXCEPT ![t] = NoLocal]
    /\ ret' = [ret EXCEPT ![t] = <<v>>]

\* A call that goes on to PATHEXT.get_or_init.
EntersOnce(t, f, p, l) ==
    /\ Ready(t)
    /\ pc' = [pc EXCEPT ![t] = "enter"]
    /\ op' = [op EXCEPT ![t] = f]
    /\ arg' = [arg EXCEPT ![t] = p]
    /\ local' = [local EXCEPT ![t] = l]
    /\ ret' = [ret EXCEPT ![t] = <<>>]

\* What the caller of get_or_init returns once it holds the stored value.
ResultWith(t, exts) ==
    IF op[t] = "executable" THEN AnyKnown(exts, local[t].ext) ELSE exts

(***************************************************************************)
(* executable_extensions and PathExt::executable.                          *)
(***************************************************************************)
CallExecutableExtensions(t) ==
    /\ EntersOnce(t, "executable_extensions", NoPath, NoLocal)
    /\ UNCHANGED <<envPathext, envSystemRoot, nulAvail, once, cell, inits, io>>

CallExecutable(t, p) ==
    /\ Ready(t)
    /\ LET ext == Extension(p.name) IN
       IF ~IsFile(p) THEN Returns(t, "executable", p, FALSE)
       ELSE IF ~ext.some THEN Returns(t, "executable", p, FALSE)
       ELSE IF ~ToStr(ext.val).some THEN Returns(t, "executable", p, FALSE)
       ELSE EntersOnce(t, "executable", p, [NoLocal EXCEPT !.ext = <<".">> \o ext.val])
    /\ UNCHANGED <<envPathext, envSystemRoot, nulAvail, once, cell, inits, io>>

\* OnceLock::get_or_init, value already stored: return it.
OnceIsComplete == once = "Complete"
OnceGet(t) ==
    /\ pc[t] = "enter"
    /\ OnceIsComplete
    /\ pc' = [pc EXCEPT ![t] = "done"]
    /\ ret' = [ret EXCEPT ![t] = <<ResultWith(t, cell.val)>>]
    /\ UNCHANGED <<envPathext, envSystemRoot, nulAvail, once, cell, inits, op, arg, local, io>>

\* Faulty variant: a thread may start the closure while another runs it.
OnceMayBeginWhileRunning == once # "Complete"
\* Faulty variant: the closure may be started again after a value is stored.
OnceMayBeginAgain == once # "Running"

\* OnceLock::get_or_init, nobody initialising: this thread becomes the one
\* that runs the closure. A thread that finds the Once Running waits.
OnceMayBegin == once = "Incomplete"
OnceBegin(t) ==
    /\ pc[t] = "enter"
    /\ OnceMayBegin
    /\ once' = "Running"
    /\ pc' = [pc EXCEPT ![t] = "closure"]
    /\ UNCHANGED <<envPathext, envSystemRoot, nulAvail, cell, inits, op, arg, local, ret, io>>

\* The closure: read PATHEXT, split, normalise.
RunClosure(t) ==
    /\ pc[t] = "closure"
    /\ local' = [local EXCEPT ![t].value = ComputeExtensions(envPathext)]
    /\ inits' = IF inits < 2 THEN inits + 1 ELSE inits
    /\ pc' = [pc EXCEPT ![t] = "store"]
    /\ UNCHANGED <<envPathext, envSystemRoot, nulAvail, once, cell, op, arg, ret, io>>

\* The value is stored, the Once completes, the caller returns.
OnceStore(t) ==
    /\ pc[t] = "store"
    /\ cell' = Some(local[t].value)
    /\ once' = "Complete"
    /\ pc' = [pc EXCEPT ![t] = "done"]
    /\ ret' = [ret EXCEPT ![t] = <<ResultWith(t, local[t].value)>>]
    /\ UNCHANGED <<envPathext, envSystemRoot, nulAvail, inits, op, arg, local, io>>

\* The caller has used the returned value; the thread is free for its next call.
Return(t) ==
    /\ pc[t] = "done"
    /\ pc' = [pc EXCEPT ![t] = "idle"]
    /\ op' = [op EXCEPT ![t] = "none"]
    /\ arg' = [arg EXCEPT ![t] = NoPath]
    /\ local' = [local EXCEPT ![t] = NoLocal]
    /\ ret' = [ret EXCEPT ![t] = <<>>]
    /\ io' = [io EXCEPT ![t] = <<>>]
    /\ UNCHANGED <<envPathext, envSystemRoot, nulAvail, once, cell, inits>>

\* The environment: another part of the process sets or removes PATHEXT.
SetPathext(v) ==
    /\ envPathext # v
    /\ envPathext' = v
    /\ UNCHANGED <<envSystemRoot, nulAvail, once, cell, inits, pc, op, arg, local, ret, io>>

InitThreads ==
    /\ once = "Incomplete"
    /\ cell = None
    /\ inits = 0
    /\ pc = [t \in Threads |-> "idle"]
    /\ op = [t \in Threads |-> "none"]
    /\ arg = [t \in Threads |-> NoPath]
    /\ local = [t \in Threads |-> NoLocal]
    /\ ret = [t \in Threads |-> <<>>]
    /\ io = [t \in Threads |-> <<>>]

(***************************************************************************)
(* Spec: several threads call executable_extensions and executable while   *)
(* the environment changes.                                                *)
(***************************************************************************)
Init ==
    /\ envPathext \in ConcPathextValues
    /\ envSystemRoot = None
    /\ nulAvail = TRUE
    /\ InitThreads

Next ==
    \/ \E t \in Threads : CallExecutableExtensions(t)
    \/ \E t \in Threads, p \in ConcPaths : CallExecutable(t, p)
    \/ \E t \in Threads : OnceGet(t)
    \/ \E t \in Threads : OnceBegin(t)
    \/ \E t \in Threads : RunClosure(t)
    \/ \E t \in Threads : OnceStore(t)
    \/ \E t \in Threads : Return(t)
    \/ \E v \in ConcPathextValues : SetPathext(v)

Spec == Init /\ [][Next]_vars

(***************************************************************************)
(* SpecExt: one thread, PATHEXT drawn from every short string, paths drawn *)
(* from every short name. PATHEXT keeps its initial value here, so the     *)
(* value the closure read is the value of envPathext in every state.       *)
(***************************************************************************)
InitExt ==
    /\ envPathext \in PathextValues
    /\ envSystemRoot = None
    /\ nulAvail = TRUE
    /\ InitThreads

NextExt ==
    \/ CallExecutableExtensions(MainThread)
    \/ \E p \in Paths : CallExecutable(MainThread, p)
    \/ OnceGet(MainThread)
    \/ OnceBegin(MainThread)
    \/ RunClosure(MainThread)
    \/ OnceStore(MainThread)
    \/ Return(MainThread)

SpecExt == InitExt /\ [][NextExt]_vars

(***************************************************************************)
(* Result<T, E>                                                            *)
(***************************************************************************)
Ok(v) == [ok |-> TRUE, val |-> v]
Err(e) == [ok |-> FALSE, val |-> e]

(***************************************************************************)
(* The constant members of impl PathExt for Path.                          *)
(***************************************************************************)
\* Faulty variant: a path that does not exist is not readable.
readable_if_exists(p) == p.kind # "missing"
readable(p) == TRUE
writable(p) == TRUE
exists_and_is_block_device(p) == FALSE
exists_and_is_char_device(p) == FALSE
exists_and_is_fifo(p) == FALSE
exists_and_is_socket(p) == FALSE
exists_and_is_setgid(p) == FALSE
exists_and_is_setuid(p) == FALSE
exists_and_is_sticky_bit(p) == FALSE
\* Faulty variant: the identity comes from the file's metadata, so a missing
\* path is an error.
get_device_and_inode_stat(p) == IF p.kind = "missing" THEN Err("io") ELSE Ok(<<0, 0>>)
get_device_and_inode(p) == Ok(<<0, 0>>)

PredicateNames ==
    { "readable", "writable", "exists_and_is_block_device", "exists_and_is_char_device",
      "exists_and_is_fifo", "exists_and_is_socket", "exists_and_is_setgid",
      "exists_and_is_setuid", "exists_and_is_sticky_bit" }

Predicate(f, p) ==
    CASE f = "readable" -> readable(p)
      [] f = "writable" -> writable(p)
      [] f = "exists_and_is_block_device" -> exists_and_is_block_device(p)
      [] f = "exists_and_is_char_device" -> exists_and_is_char_device(p)
      [] f = "exists_and_is_fifo" -> exists_and_is_fifo(p)
      [] f = "exists_and_is_socket" -> exists_and_is_socket(p)
      [] f = "exists_and_is_setgid" -> exists_and_is_setgid(p)
      [] f = "exists_and_is_setuid" -> exists_and_is_setuid(p)
      [] f = "exists_and_is_sticky_bit" -> exists_and_is_sticky_bit(p)

CallPredicate(t, f, p) ==
    /\ Returns(t, f, p, Predicate(f, p))
    /\ UNCHANGED <<envPathext, envSystemRoot, nulAvail, once, cell, inits, io>>

CallGetDeviceAndInode(t, p) ==
    /\ Returns(t, "get_device_and_inode", p, get_device_and_inode(p))
    /\ UNCHANGED <<envPathext, envSystemRoot, nulAvail, once, cell, inits, io>>

(***************************************************************************)
(* system32_path and the two search-path functions.                        *)
(***************************************************************************)
System32 == <<"S", "y", "s", "t", "e", "m", "3", "2">>

\* std::path::is_sep_byte on Windows
IsSep(c) == c \in {"\\", "/"}

\* A path that is exactly a drive prefix, such as C:
IsDriveOnly(s) == Len(s) = 2 /\ IsAsciiAlphabetic(s[1]) /\ s[2] = ":"

\* PathBuf::join with a relative, prefix-free component on Windows: a
\* separator goes in between unless the base is empty, ends with a separator
\* or is a bare drive prefix.
Join(base, component) ==
    LET need_sep == base # <<>> /\ ~IsSep(base[Len(base)]) /\ ~IsDriveOnly(base) IN
    base \o (IF need_sep THEN <<"\\">> ELSE <<>>) \o component

system32_path(system_root) ==
    IF ~system_root.some THEN None ELSE Some(Join(system_root.val, System32))

get_default_executable_search_paths(system_root) ==
    LET system32 == system32_path(system_root) IN
    IF system32.some THEN <<ToStringLossy(system32.val)>> ELSE <<>>

\* Faulty variant: the stub the doc comment describes.
get_default_standard_utils_paths_stub(system_root) == <<>>

get_default_standard_utils_paths(system_root) ==
    LET system32 == system32_path(system_root) IN
    IF system32.some THEN <<ToStringLossy(system32.val)>> ELSE <<>>

CallGetDefaultExecutableSearchPaths(t) ==
    /\ Returns(t, "get_default_executable_search_paths", NoPath,
               get_default_executable_search_paths(envSystemRoot))
    /\ UNCHANGED <<envPathext, envSystemRoot, nulAvail, once, cell, inits, io>>

CallGetDefaultStandardUtilsPaths(t) ==
    /\ Returns(t, "get_default_standard_utils_paths", NoPath,
               get_default_standard_utils_paths(envSystemRoot))
    /\ UNCHANGED <<envPathext, envSystemRoot, nulAvail, once, cell, inits, io>>

\* The environment: another part of the process sets or removes SystemRoot.
SetSystemRoot(v) ==
    /\ envSystemRoot # v
    /\ envSystemRoot' = v
    /\ UNCHANGED <<envPathext, nulAvail, once, cell, inits, pc, op, arg, local, ret, io>>

(***************************************************************************)
(* open_null_file, and the device behind the handle it returns.            *)
(***************************************************************************)
NUL == <<"N", "U", "L">>

\* Faulty variant: a failed open is tried a second time.
open_null_file_retry(avail) ==
    LET request == [path |-> NUL, read |-> TRUE, write |-> TRUE] IN
    [ opens |-> IF avail THEN <<request>> ELSE <<request, request>>,
      result |-> IF avail THEN Ok(request) ELSE Err("io") ]

\* File::options().read(true).write(true).open("NUL")?: the opens issued and
\* the value returned, given whether the OS lets the device be opened.
open_null_file(avail) ==
    LET request == [path |-> NUL, read |-> TRUE, write |-> TRUE] IN
    [ opens |-> <<request>>,
      result |-> IF avail THEN Ok(request) ELSE Err("io") ]

CallOpenNullFile(t) ==
    /\ Returns(t, "open_null_file", NoPath, open_null_file(nulAvail).result)
    /\ io' = [io EXCEPT ![t] = open_null_file(nulAvail).opens]
    /\ UNCHANGED <<envPathext, envSystemRoot, nulAvail, once, cell, inits>>

\* The null device: a write through a handle opened for writing discards the
\* bytes and reports them all written; a read through a handle opened for
\* reading reports end of stream (0 bytes).
DeviceWrite(h, n) == IF h.write THEN Ok(n) ELSE Err("access denied")
DeviceRead(h) == IF h.read THEN Ok(0) ELSE Err("access denied")

HoldsHandle(t) ==
    /\ pc[t] = "done"
    /\ op[t] = "open_null_file"
    /\ ret[t][1].ok

\* The caller writes n bytes through the handle.
WriteHandle(t, n) ==
    /\ HoldsHandle(t)
    /\ local[t].wrote = <<>>
    /\ local' = [local EXCEPT ![t].wrote = <<[n |-> n, res |-> DeviceWrite(ret[t][1].val, n)]>>]
    /\ UNCHANGED <<envPathext, envSystemRoot, nulAvail, once, cell, inits, pc, op, arg, ret, io>>

\* The caller then reads from the handle.
ReadHandle(t) ==
    /\ HoldsHandle(t)
    /\ local[t].wrote # <<>>
    /\ local[t].got = <<>>
    /\ local' = [local EXCEPT ![t].got = <<DeviceRead(ret[t][1].val)>>]
    /\ UNCHANGED <<envPathext, envSystemRoot, nulAvail, once, cell, inits, pc, op, arg, ret, io>>

\* The environment: the device becomes unavailable (or available again).
SetNulAvail(b) ==
    /\ nulAvail # b
    /\ nulAvail' = b
    /\ UNCHANGED <<envPathext, envSystemRoot, once, cell, inits, pc, op, arg, local, ret, io>>

(***************************************************************************)
(* SpecSys: one thread calls the constant predicates, the identity query,  *)
(* the search-path functions and open_null_file while SystemRoot and the   *)
(* availability of NUL change.                                             *)
(***************************************************************************)
InitSys ==
    /\ envPathext = None
    /\ envSystemRoot \in RootValues
    /\ nulAvail \in BOOLEAN
    /\ InitThreads

NextSys ==
    \/ \E f \in PredicateNames, p \in SysPaths : CallPredicate(MainThread, f, p)
    \/ \E p \in SysPaths : CallGetDeviceAndInode(MainThread, p)
    \/ CallGetDefaultExecutableSearchPaths(MainThread)
    \/ CallGetDefaultStandardUtilsPaths(MainThread)
    \/ CallOpenNullFile(MainThread)
    \/ \E n \in 0..MaxBytes : WriteHandle(MainThread, n)
    \/ ReadHandle(MainThread)
    \/ Return(MainThread)
    \/ \E v \in RootValues : SetSystemRoot(v)
    \/ \E b \in BOOLEAN : SetNulAvail(b)

SpecSys == InitSys /\ [][NextSys]_vars

(***************************************************************************)
(* Properties.                                                             *)
(***************************************************************************)
Done(t, f) == pc[t] = "done" /\ op[t] = f
ReturnsNow(t, f) == pc[t] # "done" /\ pc'[t] = "done" /\ op'[t] = f

Str_COM == <<".", "C", "O", "M">>
Str_EXE == <<".", "E", "X", "E">>
Str_BAT == <<".", "B", "A", "T">>
Str_CMD == <<".", "C", "M", "D">>
FourEntryFallback == <<Str_COM, Str_EXE, Str_BAT, Str_CMD>>

\* Case folding of a whole string (ASCII letters only, as the code compares).
Fold(s) == [i \in 1..Len(s) |-> ToAsciiLower(s[i])]

\* The ExtensionSet executable() consults: the stored one, or the one the
\* first call of executable_extensions() would store.
CurrentExtensionSet == IF cell.some THEN cell.val ELSE ComputeExtensions(envPathext)

\* Every value executable_extensions() has stored or returned.
ExtensionResults ==
    (IF cell.some THEN {cell.val} ELSE {})
        \cup {ret[t][1] : t \in {u \in Threads : Done(u, "executable_extensions")}}

AbsentOrBlank(signal) ==
    \/ ~signal.some
    \/ \A i \in 1..Len(signal.val) : signal.val[i] \in {";", " ", "\t", "\n", "\r"}

\* C4: executable_extensions() is never empty, and it is exactly .COM, .EXE,
\* .BAT, .CMD when PATHEXT is absent or every ';'-separated entry of it is
\* empty after trimming.
C4_FallbackWhenAbsentOrBlank ==
    \A r \in ExtensionResults :
        /\ r # <<>>
        /\ (AbsentOrBlank(envPathext) => r = FourEntryFallback)

\* PATHEXT is present, not the empty string, blank, and the fallback was returned.
C4_Witness ==
    /\ envPathext.some
    /\ envPathext.val # <<>>
    /\ AbsentOrBlank(envPathext)
    /\ \E t \in Threads :
          Done(t, "executable_extensions") /\ ret[t][1] = FourEntryFallback

\* The entries of a signal, stated by positions: the delimiters cut the
\* signal into segments; a segment with a non-whitespace character gives the
\* entry from its first to its last such character, with a '.' in front when
\* it does not begin with one; the entries keep the segments' order.
Delims(s) == {0, Len(s) + 1} \cup {i \in 1..Len(s) : s[i] = ";"}
SegEnd(s, d) == CHOOSE e \in Delims(s) : e > d /\ \A x \in Delims(s) : x > d => x >= e
SegChars(s, d) == {i \in (d + 1)..(SegEnd(s, d) - 1) : s[i] \notin {" ", "\t", "\n", "\r"}}
NonBlankStarts(s) == {d \in Delims(s) \ {Len(s) + 1} : SegChars(s, d) # {}}
MinOf(S) == CHOOSE x \in S : \A y \in S : x <= y
MaxOf(S) == CHOOSE x \in S : \A y \in S : x >= y
SegEntry(s, d) ==
    LET body == SubSeq(s, MinOf(SegChars(s, d)), MaxOf(SegChars(s, d))) IN
    IF body[1] = "." THEN body ELSE <<".">> \o body
Kth(S, k) == CHOOSE x \in S : Cardinality({y \in S : y < x}) = k - 1
SignalEntries(s) ==
    [k \in 1..Cardinality(NonBlankStarts(s)) |-> SegEntry(s, Kth(NonBlankStarts(s), k))]

Str_PS1 == <<".", "P", "S", "1">>
Str_exe == <<".", "e", "x", "e">>
Str_bat == <<".", "b", "a", "t">>
SignalExample == <<".", "P", "S", "1", ";", "e", "x", "e", ";", ".", "b", "a", "t">>

\* C5: when PATHEXT has a non-blank entry, executable_extensions() is exactly
\* the signal split on ';', each entry trimmed, the empty ones dropped, a '.'
\* put before each entry that lacks it: order, case and duplicates kept,
\* every entry beginning with '.', no fallback entry added; .PS1;exe;.bat
\* gives .PS1, .exe, .bat.
C5_NormalisedSignal ==
    \A r \in ExtensionResults :
        (envPathext.some /\ NonBlankStarts(envPathext.val) # {}) =>
            /\ r = SignalEntries(ToStringLossy(envPathext.val))
            /\ \A i \in 1..Len(r) : r[i] # <<>> /\ r[i][1] = "."
            /\ (envPathext.val = SignalExample => r = <<Str_PS1, Str_exe, Str_bat>>)

\* An entry without a leading '.' was normalised, next to a blank entry.
C5_Witness ==
    /\ envPathext = Some(<<" ", "e", ";">>)
    /\ \E t \in Threads :
          Done(t, "executable_extensions") /\ ret[t][1] = << <<".", "e">> >>

\* C2: when several threads make their first call of executable_extensions()
\* at the same time, the closure runs exactly once under every interleaving,
\* every caller returns the one stored sequence, and no caller returns before
\* the value is stored.
C2_InitialisedExactlyOnce ==
    /\ inits <= 1
    /\ Cardinality({t \in Threads : pc[t] \in {"closure", "store"}}) <= 1
    /\ (cell.some => inits = 1 /\ once = "Complete")
    /\ \A t \in Threads :
          Done(t, "executable_extensions") => cell.some /\ ret[t][1] = cell.val
    /\ \A t, u \in Threads :
          Done(t, "executable_extensions") /\ Done(u, "executable_extensions")
              => ret[t] = ret[u]

\* One thread has run the closure and is about to store its value while
\* another thread, also inside executable_extensions(), waits for it.
C2_Witness ==
    \E t, u \in Threads :
        /\ t # u
        /\ inits = 1
        /\ pc[t] = "store" /\ op[t] = "executable_extensions"
        /\ pc[u] = "enter" /\ op[u] = "executable_extensions"

\* C3: once executable_extensions() has stored its value, the value never
\* changes, whatever happens to PATHEXT: every call that returns afterwards
\* returns that sequence, and executable(p) decides with it.
C3_CachedForever ==
    [][ /\ (cell.some => cell' = cell)
        /\ \A t \in Threads :
              (cell.some /\ ReturnsNow(t, "executable_extensions"))
                  => ret'[t][1] = cell.val
        /\ \A t \in Threads :
              (cell.some /\ ReturnsNow(t, "executable") /\ pc[t] # "idle")
                  => ret'[t][1] =
                        (\E i \in 1..Len(cell.val) :
                            Fold(cell.val[i]) = Fold(<<".">> \o Extension(arg[t].name).val))
      ]_vars

\* Two calls have returned the stored sequence although PATHEXT now holds a
\* value from which a different sequence would be computed.
C3_Witness ==
    \E t, u \in Threads :
        /\ t # u
        /\ Done(t, "executable_extensions")
        /\ Done(u, "executable_extensions")
        /\ ret[t][1] = cell.val
        /\ ret[u][1] = cell.val
        /\ ComputeExtensions(envPathext) # cell.val

Str_Windows == <<"C", ":", "\\", "W", "i", "n", "d", "o", "w", "s">>
Str_WindowsSystem32 ==
    <<"C", ":", "\\", "W", "i", "n", "d", "o", "w", "s", "\\",
      "S", "y", "s", "t", "e", "m", "3", "2">>

\* What both search-path functions are to return for a value of SystemRoot.
SearchPathsFor(signal) ==
    IF signal.some THEN <<ToStringLossy(Join(signal.val, System32))>> ELSE <<>>

C10_StandardUtilsPathsEmpty ==
    \A t \in Threads :
        Done(t, "get_default_standard_utils_paths") => ret[t][1] = <<>>

\* C7: get_device_and_inode(p) is Ok((0, 0)) for every path, a missing one
\* too, never an error; so any two distinct paths have equal identities.
C7_IdentityIsSentinel ==
    /\ \A t \in Threads :
          Done(t, "get_device_and_inode") => ret[t][1].ok /\ ret[t][1].val = <<0, 0>>
    /\ \A p1, p2 \in SysPaths :
          p1 # p2 =>
              /\ get_device_and_inode(p1).ok
              /\ get_device_and_inode(p2).ok
              /\ get_device_and_inode(p1).val = get_device_and_inode(p2).val

\* The identity of a path that does not exist was asked for and given.
C7_Witness ==
    \E t \in Threads :
        /\ Done(t, "get_device_and_inode")
        /\ arg[t].kind = "missing"
        /\ ret[t][1].ok
        /\ ret[t][1].val = <<0, 0>>

\* C8: for every path, in every state, the seven special-file and mode-bit
\* predicates are false and readable and writable are true.
C8_ConstantPredicates ==
    \A t \in Threads :
        \A f \in PredicateNames :
            Done(t, f) => ret[t][1] = (f \in {"readable", "writable"})

\* A path that does not exist was reported readable while NUL cannot be
\* opened and SystemRoot is set.
C8_Witness ==
    \E t \in Threads :
        /\ Done(t, "readable")
        /\ arg[t].kind = "missing"
        /\ ret[t][1] = TRUE
        /\ ~nulAvail
        /\ envSystemRoot.some

\* C9: open_null_file() issues exactly one open, of NUL for reading and
\* writing; when the open succeeds it returns that handle, through which a
\* write of n bytes reports n written and a following read reports end of
\* stream; when the open fails it returns the error: no second attempt, no
\* other handle.
C9_OpenNullFileOnce ==
    [][ \A t \in Threads :
          (pc'[t] = "done" /\ op'[t] = "open_null_file") =>
              /\ io'[t] = << [path |-> NUL, read |-> TRUE, write |-> TRUE] >>
              /\ (pc[t] = "idle" => ret'[t][1].ok = nulAvail)
              /\ (ret'[t][1].ok => ret'[t][1].val = io'[t][1])
              /\ (~ret'[t][1].ok => ret'[t][1].val = "io")
              /\ (local'[t].wrote # <<>>
                     => local'[t].wrote[1].res = [ok |-> TRUE, val |-> local'[t].wrote[1].n])
              /\ (local'[t].got # <<>> => local'[t].got[1] = [ok |-> TRUE, val |-> 0])
      ]_vars

\* The open failed and the error was returned after a single attempt.
C9_Witness ==
    \E t \in Threads :
        /\ Done(t, "open_null_file")
        /\ ~ret[t][1].ok
        /\ Len(io[t]) = 1

\* The open succeeded, bytes were written and the read reported end of stream.
C9_WitnessDiscard ==
    \E t \in Threads :
        /\ Done(t, "open_null_file")
        /\ ret[t][1].ok
        /\ local[t].wrote # <<>>
        /\ local[t].wrote[1].n > 0
        /\ local[t].got = << [ok |-> TRUE, val |-> 0] >>

====
